---- MODULE Spec2Model ----
(***************************************************************************)
(* Model of the Automatic Chess Board controller (manager.py, motion.py).  *)
(*                                                                         *)
(*   Spec        - the game loop GameManager.play with the sensor polls,   *)
(*                 the human's hand and the engine's replies               *)
(*   SpecMotion  - the path planner generate_motion_steps on every pair    *)
(*                 of squares                                              *)
(*   SpecMerge   - concat_steps on bounded sequences of vectors            *)
(*   SpecExec    - execute_uci_move and the packets it writes to the port  *)
(*   SpecDecode  - _remap_and_reshape_half on well-formed Nano blocks      *)
(*                                                                         *)
(* motion.py computes with Python floats (IEEE-754 binary64).  A float is  *)
(* modelled exactly: a sign and a magnitude that is a natural number of    *)
(* units of 2^-48 mm, kept as little-endian limbs of 12 bits.  Every       *)
(* arithmetic operation computes the exact result and rounds it to 53      *)
(* significant bits, ties to even, as the hardware does.                   *)
(*                                                                         *)
(* A Python value that may be None is a sequence of length at most one:    *)
(* None is <<>> and a value v is <<v>>.                                    *)
(***************************************************************************)
EXTENDS Integers, Sequences, FiniteSets, TLC

VARIABLES
    uci,            \* motion: the move handed to generate_motion_steps;
                    \* manager: play's local uci, the last detect_player_move result
    start_abs,      \* motion: start position returned by generate_motion_steps
    steps,          \* motion: the path returned by generate_motion_steps;
                    \* merge: the list handed to concat_steps
    merged,         \* merge: concat_steps(steps)
    twice,          \* merge: concat_steps(concat_steps(steps))
    pc,             \* the step that was taken last
    board,          \* manager: GameManager.board, the symbolic position
    current_turn,   \* manager: GameManager.current_turn
    physical_board, \* manager: GameManager.physical_board, the baseline sweep
    last_read,      \* manager: what assemble_full_board returned on the last poll
    world,          \* the pieces standing on the real board, by piece ID (0 = empty)
    hand,           \* the piece ID the human is holding (0 = none)
    port,           \* motion: the packets execute_uci_move wrote to the port
    raw_scan,       \* decoder: the block handed to _remap_and_reshape_half
    half_board      \* decoder: the half-board _remap_and_reshape_half returned

motion_vars == <<uci, start_abs, steps, merged, twice>>
manager_vars == <<board, current_turn, physical_board, last_read, world, hand>>
io_vars == <<port, raw_scan, half_board>>
vars == <<uci, start_abs, steps, merged, twice, pc,
          board, current_turn, physical_board, last_read, world, hand,
          port, raw_scan, half_board>>

\* nothing was written to the port and no block was decoded
IoIdle ==
    /\ port = <<>>
    /\ raw_scan = <<>>
    /\ half_board = <<>>

-----------------------------------------------------------------------------
(* Natural numbers as little-endian sequences of limbs, no leading zero.   *)

LimbBits == 12
LimbBase == 4096
FracLimbs == 4          \* 4 limbs = 48 fractional bits
MantBits == 53          \* significant bits of a binary64

RECURSIVE NNorm(_)
NNorm(a) ==
    IF a = <<>> THEN <<>>
    ELSE IF a[Len(a)] = 0 THEN NNorm(SubSeq(a, 1, Len(a) - 1))
    ELSE a

NLimb(a, i) == IF i >= 1 /\ i <= Len(a) THEN a[i] ELSE 0

RECURSIVE NAddC(_, _, _, _)
NAddC(a, b, i, c) ==
    IF i > Len(a) /\ i > Len(b)
    THEN IF c = 0 THEN <<>> ELSE <<c>>
    ELSE LET t == NLimb(a, i) + NLimb(b, i) + c
         IN  <<t % LimbBase>> \o NAddC(a, b, i + 1, t \div LimbBase)

NAdd(a, b) == NAddC(a, b, 1, 0)

\* a - b for a >= b
RECURSIVE NSubC(_, _, _, _)
NSubC(a, b, i, c) ==
    IF i > Len(a) THEN <<>>
    ELSE LET t == NLimb(a, i) - NLimb(b, i) - c
         IN  IF t < 0 THEN <<t + LimbBase>> \o NSubC(a, b, i + 1, 1)
             ELSE <<t>> \o NSubC(a, b, i + 1, 0)

NSub(a, b) == NNorm(NSubC(a, b, 1, 0))

\* -1, 0, 1 as a < b, a = b, a > b
RECURSIVE NCmpAt(_, _, _)
NCmpAt(a, b, i) ==
    IF i = 0 THEN 0
    ELSE IF a[i] < b[i] THEN -1
    ELSE IF a[i] > b[i] THEN 1
    ELSE NCmpAt(a, b, i - 1)

NCmp(a, b) ==
    IF Len(a) < Len(b) THEN -1
    ELSE IF Len(a) > Len(b) THEN 1
    ELSE NCmpAt(a, b, Len(a))

RECURSIVE NMulLimbC(_, _, _, _)
NMulLimbC(a, d, i, c) ==
    IF i > Len(a)
    THEN IF c = 0 THEN <<>> ELSE <<c>>
    ELSE LET t == a[i] * d + c
         IN  <<t % LimbBase>> \o NMulLimbC(a, d, i + 1, t \div LimbBase)

NMulLimb(a, d) == IF d = 0 THEN <<>> ELSE NMulLimbC(a, d, 1, 0)

NShiftLimbs(a, w) == IF a = <<>> THEN <<>> ELSE [i \in 1..w |-> 0] \o a

RECURSIVE NMul(_, _)
NMul(a, b) ==
    IF a = <<>> \/ b = <<>> THEN <<>>
    ELSE NAdd(NMulLimb(b, a[1]), NShiftLimbs(NMul(Tail(a), b), 1))

RECURSIVE BitLen(_)
BitLen(d) == IF d = 0 THEN 0 ELSE 1 + BitLen(d \div 2)

NBits(a) == IF a = <<>> THEN 0 ELSE LimbBits * (Len(a) - 1) + BitLen(a[Len(a)])

\* floor(a / 2^k)
NShr(a, k) ==
    LET w == k \div LimbBits
        p == 2 ^ (k % LimbBits)
        n == Len(a) - w
    IN  IF n <= 0 THEN <<>>
        ELSE NNorm([i \in 1..n |->
                      (a[i + w] \div p) + (NLimb(a, i + w + 1) % p) * (LimbBase \div p)])

\* a * 2^k
NShl(a, k) == NShiftLimbs(NMulLimb(a, 2 ^ (k % LimbBits)), k \div LimbBits)

\* a mod 2^k
NLow(a, k) ==
    LET w == k \div LimbBits
        p == 2 ^ (k % LimbBits)
    IN  IF w >= Len(a) THEN a
        ELSE NNorm(SubSeq(a, 1, w) \o <<a[w + 1] % p>>)

NOdd(a) == a # <<>> /\ a[1] % 2 = 1

NOne == <<1>>

\* a rounded to MantBits significant bits, ties to even (round-half-even)
RoundD(a) ==
    LET k == NBits(a) - MantBits
    IN  IF k <= 0 THEN a
        ELSE LET q    == NShr(a, k)
                 hb   == NOdd(NShr(a, k - 1))
                 rest == NLow(a, k - 1)
                 up   == hb /\ (rest # <<>> \/ NOdd(q))
             IN  NShl(IF up THEN NAdd(q, NOne) ELSE q, k)

-----------------------------------------------------------------------------
(* Python floats: [neg, mag], mag in units of 2^-48.                       *)

FZero == [neg |-> FALSE, mag |-> <<>>]

FMake(neg, mag) == IF mag = <<>> THEN FZero ELSE [neg |-> neg, mag |-> mag]

\* the float of a small integer literal
FromInt(n) ==
    IF n = 0 THEN FZero
    ELSE [neg |-> n < 0,
          mag |-> NShiftLimbs(NMulLimb(<<1>>, IF n < 0 THEN -n ELSE n), FracLimbs)]

\* n + 0.5 for an integer n >= 0 (exact in binary64)
FromHalf(n) == [neg |-> FALSE, mag |-> NNorm(<<0, 0, 0, 2048, n>>)]

FNeg(a) == FMake(~a.neg, a.mag)

FIsZero(a) == a.mag = <<>>

\* the exact sum of two signed magnitudes (no rounding)
SAdd(a, b) ==
    IF a.neg = b.neg THEN FMake(a.neg, NAdd(a.mag, b.mag))
    ELSE IF NCmp(a.mag, b.mag) >= 0 THEN FMake(a.neg, NSub(a.mag, b.mag))
    ELSE FMake(b.neg, NSub(b.mag, a.mag))

\* an exact value rounded to binary64
FRound(v) == FMake(v.neg, RoundD(v.mag))

\* a + b
FAdd(a, b) == FRound(SAdd(a, b))

\* a - b
FSub(a, b) == FAdd(a, FNeg(b))

\* a * b (results below 2^-48 do not occur in motion.py's range)
FMul(a, b) ==
    FMake(a.neg # b.neg, NShr(RoundD(NMul(a.mag, b.mag)), LimbBits * FracLimbs))

\* a / 2
FHalve(a) == FMake(a.neg, NShr(a.mag, 1))

\* a < b
FLess(a, b) ==
    IF a.neg /\ ~b.neg THEN TRUE
    ELSE IF ~a.neg /\ b.neg THEN FALSE
    ELSE IF a.neg THEN NCmp(a.mag, b.mag) > 0
    ELSE NCmp(a.mag, b.mag) < 0

-----------------------------------------------------------------------------
(* motion.py: board geometry and coordinate conversion                     *)

\* SW: float = 57.15, the binary64 nearest to 57.15 (16086294919013990 * 2^-48)
SW == [neg |-> FALSE, mag |-> <<1638, 1638, 1638, 614, 57>>]

BOARD_SIZE == 8

Letters == <<"a", "b", "c", "d", "e", "f", "g", "h">>
Digits == <<"1", "2", "3", "4", "5", "6", "7", "8">>

\* ord(letter.lower()) - ord("a")
LetterIndex(letter) == (CHOOSE k \in 1..8 : Letters[k] = letter) - 1

\* int(sq[1])
DigitValue(d) == CHOOSE k \in 1..8 : Digits[k] = d

Pos(x, y) == [x |-> x, y |-> y]

\* (k + 0.5) * SW for k = 0..7, computed once: letter_to_x(letter) has
\* k = i and number_to_y(rank) has k + 0.5 = rank - 0.5
AxisCoord == [k \in 0..7 |-> FMul(FromHalf(k), SW)]

letter_to_x(letter) == AxisCoord[LetterIndex(letter)]

number_to_y(rank) == AxisCoord[rank - 1]

uci_square_to_pos(sq) == Pos(letter_to_x(sq[1]), number_to_y(DigitValue(sq[2])))

uci_to_coords(u) ==
    <<uci_square_to_pos(SubSeq(u, 1, 2)), uci_square_to_pos(SubSeq(u, 3, 4))>>

-----------------------------------------------------------------------------
(* motion.py: corner helpers                                               *)

square_adjacent_corners(p) ==
    LET half == FHalve(SW)
    IN  << Pos(FSub(p.x, half), FSub(p.y, half)),
           Pos(FAdd(p.x, half), FSub(p.y, half)),
           Pos(FSub(p.x, half), FAdd(p.y, half)),
           Pos(FAdd(p.x, half), FAdd(p.y, half)) >>

\* d**2 for every difference d between a corner coordinate and a centre
\* coordinate of the board, computed once
CornerCoords ==
    {FSub(AxisCoord[k], FHalve(SW)) : k \in 0..7}
        \cup {FAdd(AxisCoord[k], FHalve(SW)) : k \in 0..7}

SquareOf ==
    [d \in {FSub(c, AxisCoord[k]) : c \in CornerCoords, k \in 0..7} |-> FMul(d, d)]

\* (c.x - t.x)**2 + (c.y - t.y)**2
SqDist(c, t) ==
    LET dx == FSub(c.x, t.x)
        dy == FSub(c.y, t.y)
    IN  FAdd(SquareOf[dx], SquareOf[dy])

\* min(corners, key=...): scan the list keeping the first least key
RECURSIVE MinScan(_, _, _, _, _)
MinScan(corners, t, i, best, bestKey) ==
    IF i > Len(corners) THEN best
    ELSE LET k == SqDist(corners[i], t)
         IN  IF FLess(k, bestKey)
             THEN MinScan(corners, t, i + 1, corners[i], k)
             ELSE MinScan(corners, t, i + 1, best, bestKey)

MinByDist(corners, t) == MinScan(corners, t, 2, corners[1], SqDist(corners[1], t))

find_first_corner(s, e) == MinByDist(square_adjacent_corners(s), e)

\* a find_last_corner that takes the first corner of the list
find_last_corner_first(s, e) == square_adjacent_corners(e)[1]

find_last_corner(s, e) == MinByDist(square_adjacent_corners(e), s)

find_closest_corners(s, e) == <<find_first_corner(s, e), find_last_corner(s, e)>>

-----------------------------------------------------------------------------
(* motion.py: path generation                                              *)

\* a to_corner that goes only half of the way up or down to the corner
to_corner_halfway(s, corner) ==
    <<Pos(FZero, FHalve(FSub(corner.y, s.y))), Pos(FSub(corner.x, s.x), FZero)>>

\* a to_corner that forgets the vertical step
to_corner_noY(s, corner) ==
    IF ~FIsZero(FSub(corner.x, s.x)) THEN <<Pos(FSub(corner.x, s.x), FZero)>> ELSE <<>>

to_corner(s, corner) ==
    LET dx == FSub(corner.x, s.x)
        dy == FSub(corner.y, s.y)
    IN  (IF ~FIsZero(dy) THEN <<Pos(FZero, dy)>> ELSE <<>>)
        \o (IF ~FIsZero(dx) THEN <<Pos(dx, FZero)>> ELSE <<>>)

from_corner(corner, e) ==
    LET dy == FSub(e.y, corner.y)
        dx == FSub(e.x, corner.x)
    IN  (IF ~FIsZero(dx) THEN <<Pos(dx, FZero)>> ELSE <<>>)
        \o (IF ~FIsZero(dy) THEN <<Pos(FZero, dy)>> ELSE <<>>)

\* a manhattan that forgets the vertical step
manhattan_noY(s, e) ==
    IF ~FIsZero(FSub(e.x, s.x)) THEN <<Pos(FSub(e.x, s.x), FZero)>> ELSE <<>>

manhattan(s, e) ==
    LET dx == FSub(e.x, s.x)
        dy == FSub(e.y, s.y)
    IN  (IF ~FIsZero(dx) THEN <<Pos(dx, FZero)>> ELSE <<>>)
        \o (IF ~FIsZero(dy) THEN <<Pos(FZero, dy)>> ELSE <<>>)

\* the for loop of concat_steps: <<merged, changed>> after steps[i..]
RECURSIVE MergeLoop(_, _, _, _)
MergeLoop(st, i, m, changed) ==
    IF i > Len(st) THEN <<m, changed>>
    ELSE LET s == st[i]
             last == m[Len(m)]
         IN  IF ~FIsZero(last.x) /\ ~FIsZero(s.x)
             THEN MergeLoop(st, i + 1,
                      [m EXCEPT ![Len(m)] = Pos(FAdd(last.x, s.x), last.y)], TRUE)
             ELSE IF ~FIsZero(last.y) /\ ~FIsZero(s.y)
             THEN MergeLoop(st, i + 1,
                      [m EXCEPT ![Len(m)] = Pos(last.x, FAdd(last.y, s.y))], TRUE)
             ELSE MergeLoop(st, i + 1, Append(m, s), changed)

\* [s for s in merged if s.x != 0 or s.y != 0]
FilterZero(m) == SelectSeq(m, LAMBDA s : ~FIsZero(s.x) \/ ~FIsZero(s.y))

\* a concat_steps that only drops the zero-length steps and merges nothing
concat_steps_nomerge(st) == FilterZero(st)

RECURSIVE concat_steps(_)
concat_steps(st) ==
    IF st = <<>> THEN st
    ELSE LET r == MergeLoop(st, 2, <<st[1]>>, FALSE)
             m == FilterZero(r[1])
         IN  IF r[2] /\ Len(m) < Len(st) THEN concat_steps(m) ELSE m

\* steps = to_corner(start, first) + manhattan(first, last) + from_corner(last, end)
\* with fl = <<first, last>>; returns <<start, concat_steps(steps)>>
RouteVia(s, e, fl) ==
    <<s, concat_steps(to_corner(s, fl[1]) \o manhattan(fl[1], fl[2]) \o from_corner(fl[2], e))>>

\* first, last = find_closest_corners(start, end), with se = <<start, end>>
RouteBetween(se) == RouteVia(se[1], se[2], find_closest_corners(se[1], se[2]))

\* start, end = uci_to_coords(uci); returns <<start, path>>
generate_motion_steps(u) == RouteBetween(uci_to_coords(u))

-----------------------------------------------------------------------------
(* motion.py: motion command encoding                                      *)

MOTION_MOVE_ABS == 16

MOTION_MOVE_REL == 17

\* the value of a limb sequence as an integer
RECURSIVE LimbsToInt(_)
LimbsToInt(a) == IF a = <<>> THEN 0 ELSE a[1] + LimbBase * LimbsToInt(Tail(a))

\* one half, in units of 2^-48
NHalf == <<0, 0, 0, 2048>>

\* round(|x|): to the nearest integer, a tie to the even one
RoundMag(ip, frac) ==
    LimbsToInt(ip)
        + (IF NCmp(frac, NHalf) > 0 \/ (NCmp(frac, NHalf) = 0 /\ NOdd(ip)) THEN 1 ELSE 0)

\* int(round(x))
RoundInt(a) ==
    IF a.neg
    THEN 0 - RoundMag(NShr(a.mag, LimbBits * FracLimbs), NNorm(NLow(a.mag, LimbBits * FracLimbs)))
    ELSE RoundMag(NShr(a.mag, LimbBits * FracLimbs), NNorm(NLow(a.mag, LimbBits * FracLimbs)))

\* Pos.as_int_tuple
as_int_tuple(p) == <<RoundInt(p.x), RoundInt(p.y)>>

\* to_homing = (-2.5 * SW, 7.5 * SW)
relative_to_homing(pos) ==
    Pos(FSub(pos.x, FNeg(FMul(FromHalf(2), SW))), FSub(pos.y, FMul(FromHalf(7), SW)))

DecimalDigits == <<"0", "1", "2", "3", "4", "5", "6", "7", "8", "9">>

\* str(n) for n >= 0
RECURSIVE NatToStr(_)
NatToStr(n) ==
    IF n < 10 THEN <<DecimalDigits[n + 1]>>
    ELSE NatToStr(n \div 10) \o <<DecimalDigits[(n % 10) + 1]>>

\* f"{n}" for an int
IntToStr(n) == IF n < 0 THEN <<"-">> \o NatToStr(0 - n) ELSE NatToStr(n)

\* bytes([opcode]) + f"{a} {b} {useMag}\n".encode()
Packet(opcode, ab, useMag) ==
    [opcode |-> opcode,
     text |-> IntToStr(ab[1]) \o <<" ">> \o IntToStr(ab[2]) \o <<" ">>
                  \o IntToStr(useMag) \o <<"\n">>]

\* prt: the packets written to the port so far
send_abs(prt, pos, useMag) == Append(prt, Packet(MOTION_MOVE_ABS, as_int_tuple(pos), useMag))

send_rel(prt, step, useMag) == Append(prt, Packet(MOTION_MOVE_REL, as_int_tuple(step), useMag))

\* for s in steps: send_rel(port, s, useMag=1)
RECURSIVE SendSteps(_, _, _)
SendSteps(prt, st, i) ==
    IF i > Len(st) THEN prt ELSE SendSteps(send_rel(prt, st[i], 1), st, i + 1)

\* execute_uci_move after start_abs, steps = generate_motion_steps(uci),
\* with r = <<start_abs, steps>>
ExecuteRoute(r, prt) ==
    SendSteps(send_abs(prt, relative_to_homing(r[1]), 0), r[2], 1)

execute_uci_move(u, prt) == ExecuteRoute(generate_motion_steps(u), prt)

-----------------------------------------------------------------------------
(* manager.py: constants and coordinate helpers                            *)

None == <<>>

Some(v) == <<v>>

PLAYER == 0

COM == 1

TERMINAL_PLAY == FALSE

NUM_READERS_PER_NANO == 32

BLOCK_BYTES == NUM_READERS_PER_NANO

\* map_arr[i] of the source is NANO1_MAP[i + 1]
NANO1_MAP == <<7, 6, 5, 4, 1, 0, 2, 3>>

\* file = chr(ord("a") + c); rank = str(8 - r)
pos_to_uci(r, c) == <<Letters[c + 1], Digits[8 - r]>>

\* the for loops of detect_move over r, c with k = 8 * r + c:
\* <<from_sq, to_sq>> after the cells k..63
RECURSIVE DetectScan(_, _, _, _, _)
DetectScan(old_board, new_board, k, from_sq, to_sq) ==
    IF k = 64 THEN <<from_sq, to_sq>>
    ELSE LET r == k \div 8
             c == k % 8
             old == old_board[r][c]
             new == new_board[r][c]
         IN  IF old # new /\ old # None /\ new = None
             THEN DetectScan(old_board, new_board, k + 1, Some(<<r, c>>), to_sq)
             ELSE IF old # new /\ old = None /\ new # None
             THEN DetectScan(old_board, new_board, k + 1, from_sq, Some(<<r, c>>))
             ELSE DetectScan(old_board, new_board, k + 1, from_sq, to_sq)

\* if from_sq and to_sq: return pos_to_uci(fr, fc) + pos_to_uci(tr, tc)
DetectResult(ft) ==
    IF ft[1] # None /\ ft[2] # None
    THEN Some(pos_to_uci(ft[1][1][1], ft[1][1][2]) \o pos_to_uci(ft[2][1][1], ft[2][1][2]))
    ELSE None

detect_move(old_board, new_board) ==
    DetectResult(DetectScan(old_board, new_board, 0, None, None))

-----------------------------------------------------------------------------
(* manager.py: the symbolic board.  Board extends chess.Board of the       *)
(* python-chess library; the library is modelled by the part of the rules  *)
(* the bounded games reach: piece movement, captures and the side to move. *)
(* No game of at most MaxPlies plies over HandSquares and EngineMoves      *)
(* reaches a check, a pin, castling, en passant or a promotion.            *)

Empty == "."

WhitePieces == {"P", "N", "B", "R", "Q", "K"}

BlackPieces == {"p", "n", "b", "r", "q", "k"}

\* chess.STARTING_FEN, row 0 = rank 8
StartRows ==
    << <<"r", "n", "b", "q", "k", "b", "n", "r">>,
       <<"p", "p", "p", "p", "p", "p", "p", "p">>,
       <<".", ".", ".", ".", ".", ".", ".", ".">>,
       <<".", ".", ".", ".", ".", ".", ".", ".">>,
       <<".", ".", ".", ".", ".", ".", ".", ".">>,
       <<".", ".", ".", ".", ".", ".", ".", ".">>,
       <<"P", "P", "P", "P", "P", "P", "P", "P">>,
       <<"R", "N", "B", "Q", "K", "B", "N", "R">> >>

\* Board(): the standard position, White to move, no move pushed
StartBoard ==
    [at |-> [r \in 0..7 |-> [c \in 0..7 |-> StartRows[r + 1][c + 1]]],
     turn |-> "w",
     plies |-> 0]

PieceAt(b, sq) == b.at[sq[1]][sq[2]]

OwnPiece(b, sym) == IF b.turn = "w" THEN sym \in WhitePieces ELSE sym \in BlackPieces

EnemyPiece(b, sym) == IF b.turn = "w" THEN sym \in BlackPieces ELSE sym \in WhitePieces

OnBoard(sq) == sq[1] \in 0..7 /\ sq[2] \in 0..7

Abs(n) == IF n < 0 THEN -n ELSE n

Sign(n) == IF n < 0 THEN -1 ELSE IF n > 0 THEN 1 ELSE 0

\* the squares strictly between f and t on a rank, file or diagonal are empty
LineClear(b, f, t) ==
    \A k \in 1..(IF Abs(t[1] - f[1]) > Abs(t[2] - f[2])
                 THEN Abs(t[1] - f[1]) ELSE Abs(t[2] - f[2])) - 1 :
        PieceAt(b, <<f[1] + k * Sign(t[1] - f[1]), f[2] + k * Sign(t[2] - f[2])>>) = Empty

PawnMove(b, f, t) ==
    LET dir == IF b.turn = "w" THEN -1 ELSE 1
        home == IF b.turn = "w" THEN 6 ELSE 1
    IN  \/ t = <<f[1] + dir, f[2]>> /\ PieceAt(b, t) = Empty
        \/ /\ f[1] = home
           /\ t = <<f[1] + 2 * dir, f[2]>>
           /\ PieceAt(b, <<f[1] + dir, f[2]>>) = Empty
           /\ PieceAt(b, t) = Empty
        \/ /\ t[1] = f[1] + dir
           /\ Abs(t[2] - f[2]) = 1
           /\ EnemyPiece(b, PieceAt(b, t))

KnightMove(b, f, t) ==
    /\ {Abs(t[1] - f[1]), Abs(t[2] - f[2])} = {1, 2}
    /\ ~OwnPiece(b, PieceAt(b, t))

RookMove(b, f, t) ==
    /\ (t[1] = f[1]) # (t[2] = f[2])
    /\ LineClear(b, f, t)
    /\ ~OwnPiece(b, PieceAt(b, t))

BishopMove(b, f, t) ==
    /\ t # f
    /\ Abs(t[1] - f[1]) = Abs(t[2] - f[2])
    /\ LineClear(b, f, t)
    /\ ~OwnPiece(b, PieceAt(b, t))

KingMove(b, f, t) ==
    /\ t # f
    /\ Abs(t[1] - f[1]) <= 1
    /\ Abs(t[2] - f[2]) <= 1
    /\ ~OwnPiece(b, PieceAt(b, t))

\* chess.Board.is_legal(move)
is_legal(b, move) ==
    LET f == move.from_square
        t == move.to_square
        sym == PieceAt(b, f)
    IN  /\ OnBoard(f) /\ OnBoard(t)
        /\ OwnPiece(b, sym)
        /\ IF sym \in {"P", "p"} THEN PawnMove(b, f, t)
           ELSE IF sym \in {"N", "n"} THEN KnightMove(b, f, t)
           ELSE IF sym \in {"R", "r"} THEN RookMove(b, f, t)
           ELSE IF sym \in {"B", "b"} THEN BishopMove(b, f, t)
           ELSE IF sym \in {"Q", "q"} THEN RookMove(b, f, t) \/ BishopMove(b, f, t)
           ELSE KingMove(b, f, t)

\* chess.Board.push(move): the piece goes from from_square to to_square and
\* the side to move changes
chess_push(b, move) ==
    [at |-> [r \in 0..7 |-> [c \in 0..7 |->
                IF <<r, c>> = move.from_square THEN Empty
                ELSE IF <<r, c>> = move.to_square THEN PieceAt(b, move.from_square)
                ELSE b.at[r][c]]],
     turn |-> IF b.turn = "w" THEN "b" ELSE "w",
     plies |-> b.plies + 1]

\* Board.push(move, player): super().push(move); execute_motion only prints
push(b, move, player) == chess_push(b, move)

\* chess.Board.is_game_over(): the side to move has no legal move.  The
\* draws by material, repetition and move count need longer games.
is_game_over(b) ==
    ~\E f \in {sq \in (0..7) \X (0..7) : OwnPiece(b, PieceAt(b, sq))} :
        \E t \in (0..7) \X (0..7) : is_legal(b, [from_square |-> f, to_square |-> t])

\* chess.Move.from_uci(uci): ValueError unless uci names two different
\* squares; detect_move never appends a promotion letter
from_uci(u) ==
    IF /\ Len(u) = 4
       /\ u[1] \in {Letters[k] : k \in 1..8} /\ u[2] \in {Digits[k] : k \in 1..8}
       /\ u[3] \in {Letters[k] : k \in 1..8} /\ u[4] \in {Digits[k] : k \in 1..8}
       /\ SubSeq(u, 1, 2) # SubSeq(u, 3, 4)
    THEN [ok |-> TRUE,
          from_square |-> <<8 - DigitValue(u[2]), LetterIndex(u[1])>>,
          to_square |-> <<8 - DigitValue(u[4]), LetterIndex(u[3])>>]
    ELSE [ok |-> FALSE, from_square |-> <<0, 0>>, to_square |-> <<0, 0>>]

-----------------------------------------------------------------------------
(* manager.py: SerialNano and the decoding of a Nano block                 *)

\* SerialNano.ping: any reply byte is success, no reply is failure
ping(resp) == resp # <<>>

\* SerialNano.get_block: the bytes read, or None when their number is wrong
get_block(data, expected_len) ==
    IF Len(data) # expected_len THEN None ELSE Some(data)

\* a remapping that leaves every reader where it is
Remapped_unmapped(raw_block, map_arr) ==
    [j \in 0..(NUM_READERS_PER_NANO - 1) |-> raw_block[j + 1]]

\* remapped[base + map_arr[i]] = raw_block[base + i] for every mux and i;
\* an index no i writes keeps its 0, the last write to an index wins
Remapped(raw_block, map_arr) ==
    [j \in 0..(NUM_READERS_PER_NANO - 1) |->
        LET base == (j \div 8) * 8
            writers == {i \in 0..7 : map_arr[i + 1] = j % 8}
        IN  IF writers = {} THEN 0
            ELSE raw_block[base + (CHOOSE i \in writers : \A o \in writers : o <= i) + 1]]

\* half[row][col] = None if val == 0 else val, then half.reverse()
Reshaped(remapped) ==
    [r \in 0..7 |-> [c \in 0..3 |->
        IF remapped[(7 - r) * 4 + c] = 0 THEN None ELSE Some(remapped[(7 - r) * 4 + c])]]

remap_and_reshape_half(raw_block, map_arr) ==
    IF raw_block = None THEN None
    ELSE IF Len(raw_block[1]) # NUM_READERS_PER_NANO THEN None
    ELSE Some(Reshaped(Remapped(raw_block[1], map_arr)))

\* a read of the half that does not ping first
read_half_unpinged(resp, data) ==
    IF get_block(data, BLOCK_BYTES) = None THEN None
    ELSE remap_and_reshape_half(get_block(data, BLOCK_BYTES), NANO1_MAP)

\* resp: the reply to the ping; data: the bytes the port returns to get_block
read_half_from_nano1(resp, data) ==
    IF ~ping(resp) THEN None
    ELSE IF get_block(data, BLOCK_BYTES) = None THEN None
    ELSE remap_and_reshape_half(get_block(data, BLOCK_BYTES), NANO1_MAP)

\* full[r][c] = left[r][c], full[r][c + 4] = right[r][c] with left all None
FullBoard(right) ==
    IF right = None THEN None
    ELSE Some([r \in 0..7 |-> [c \in 0..7 |-> IF c < 4 THEN None ELSE right[1][r][c - 4]]])

assemble_full_board(resp, data) == FullBoard(read_half_from_nano1(resp, data))

-----------------------------------------------------------------------------
(* manager.py: GameManager                                                 *)

\* self.physical_board = [[None for _ in range(8)] for _ in range(8)]
EmptyGrid == [r \in 0..7 |-> [c \in 0..7 |-> None]]

\* uci = detect_move(self.physical_board, new_state) and what follows it
DetectCommit(pb, new_state, u) ==
    IF u = None
    THEN [uci |-> None, physical_board |-> pb, new_state |-> new_state]
    ELSE [uci |-> u, physical_board |-> new_state[1], new_state |-> new_state]

\* detect_player_move with new_state = self.assemble_full_board()
DetectRead(pb, new_state) ==
    IF new_state = None
    THEN [uci |-> None, physical_board |-> pb, new_state |-> new_state]
    ELSE DetectCommit(pb, new_state, detect_move(pb, new_state[1]))

detect_player_move(pb, resp, data) == DetectRead(pb, assemble_full_board(resp, data))

\* a player_move that pushes without asking is_legal
player_move_unchecked(b, turn, move) ==
    [board |-> push(b, move, turn), current_turn |-> COM, out |-> "player_push"]

player_move(b, turn, move) ==
    IF is_legal(b, move)
    THEN [board |-> push(b, move, turn), current_turn |-> COM, out |-> "player_push"]
    ELSE [board |-> b, current_turn |-> turn, out |-> "illegal"]

ai_move(b, turn, move) ==
    [board |-> push(b, move, turn), current_turn |-> PLAYER]

\* play, PLAYER's turn: move = chess.Move.from_uci(uci); self.player_move(move)
PlayParsed(b, turn, d, move) ==
    IF ~move.ok
    THEN [board |-> b, current_turn |-> turn, out |-> "invalid_uci"]
    ELSE player_move(b, turn, move)

\* play, PLAYER's turn: if uci is None: continue
PlayDetected(b, turn, d) ==
    IF d.uci = None
    THEN [board |-> b, current_turn |-> turn,
          out |-> IF d.new_state = None THEN "read_failed" ELSE "no_move"]
    ELSE PlayParsed(b, turn, d, from_uci(d.uci[1]))

-----------------------------------------------------------------------------
(* The world around the manager: the pieces on the real board, the Nano    *)
(* that scans the e-h files, the human's hand and the engine.              *)

PieceSymbols == <<"P", "N", "B", "R", "Q", "K", "p", "n", "b", "r", "q", "k">>

\* the piece ID a reader reports for a piece, 0 for an empty square
PieceId(sym) ==
    IF sym = Empty THEN 0 ELSE CHOOSE k \in 1..Len(PieceSymbols) : PieceSymbols[k] = sym

\* the pieces set up for a game
StartWorld == [r \in 0..7 |-> [c \in 0..7 |-> PieceId(StartRows[r + 1][c + 1])]]

\* the block Nano1 caches: reader base + i sits under the square that
\* NANO1_MAP sends it to, rank 1 first, files e to h
NanoBlock(w) ==
    [n \in 1..NUM_READERS_PER_NANO |->
        LET base == ((n - 1) \div 8) * 8
            idx == base + NANO1_MAP[((n - 1) % 8) + 1]
        IN  w[7 - (idx \div 4)][4 + (idx % 4)]]

\* the replies the port gives to a ping: none, or one byte
PingReplies == {<<>>, <<1>>}

\* the number of bytes the port returns to get_block before its timeout
ReadLens == {0, BLOCK_BYTES - 1, BLOCK_BYTES}

SquareAt(letter, digit) == <<8 - DigitValue(digit), LetterIndex(letter)>>

\* the squares the human's hand takes pieces from and puts them on
HandSquares ==
    {SquareAt("e", "2"), SquareAt("e", "4"), SquareAt("g", "1"), SquareAt("f", "3")}

\* the replies the engine chooses from
EngineMoves ==
    {from_uci(<<"e", "7", "e", "5">>), from_uci(<<"g", "8", "f", "6">>),
     from_uci(<<"d", "7", "d", "5">>)}

\* result.move of engine.play: one of the legal replies
get_ai_move(b) == {m \in EngineMoves : is_legal(b, m)}

\* the games are followed for MaxPlies plies
MaxPlies == 3

\* what a sweep of the pieces set up for a game decodes to
SensedStart == assemble_full_board(<<1>>, NanoBlock(StartWorld))[1]

\* physical_board when play starts: as constructed, or the recorded sweep
\* of the pieces set up for a game
Baselines == {EmptyGrid, SensedStart}

Init ==
    /\ board = StartBoard
    /\ current_turn = PLAYER
    /\ physical_board \in Baselines
    /\ last_read = None
    /\ world = StartWorld
    /\ hand = 0
    /\ uci = None
    /\ start_abs = <<>>
    /\ steps = <<>>
    /\ merged = <<>>
    /\ twice = <<>>
    /\ pc = "constructed"
    /\ IoIdle

\* the human lifts a piece off a square
HandLift ==
    /\ hand = 0
    /\ \E sq \in HandSquares :
           /\ world[sq[1]][sq[2]] # 0
           /\ hand' = world[sq[1]][sq[2]]
           /\ world' = [world EXCEPT ![sq[1]][sq[2]] = 0]
    /\ pc' = "hand"
    /\ UNCHANGED <<board, current_turn, physical_board, last_read, motion_vars, io_vars>>

\* the human puts the piece in hand on an empty square
HandPlace ==
    /\ hand # 0
    /\ \E sq \in HandSquares :
           /\ world[sq[1]][sq[2]] = 0
           /\ world' = [world EXCEPT ![sq[1]][sq[2]] = hand]
    /\ hand' = 0
    /\ pc' = "hand"
    /\ UNCHANGED <<board, current_turn, physical_board, last_read, motion_vars, io_vars>>

\* one pass of play's loop on PLAYER's turn
PlayerTurn ==
    /\ ~is_game_over(board)
    /\ board.plies < MaxPlies
    /\ current_turn = PLAYER
    /\ ~TERMINAL_PLAY
    /\ \E resp \in PingReplies, got \in ReadLens :
         \E d \in {detect_player_move(physical_board, resp, SubSeq(NanoBlock(world), 1, got))} :
           /\ physical_board' = d.physical_board
           /\ last_read' = d.new_state
           /\ uci' = d.uci
           /\ \E p \in {PlayDetected(board, current_turn, d)} :
                  /\ board' = p.board
                  /\ current_turn' = p.current_turn
                  /\ pc' = p.out
    /\ UNCHANGED <<world, hand, start_abs, steps, merged, twice, io_vars>>

\* one pass of play's loop on COM's turn: self.ai_move()
ComTurn ==
    /\ ~is_game_over(board)
    /\ board.plies < MaxPlies
    /\ current_turn # PLAYER
    /\ \E move \in get_ai_move(board) :
         \E a \in {ai_move(board, current_turn, move)} :
           /\ board' = a.board
           /\ current_turn' = a.current_turn
    /\ pc' = "ai_push"
    /\ UNCHANGED <<physical_board, last_read, world, hand, motion_vars, io_vars>>

Next == HandLift \/ HandPlace \/ PlayerTurn \/ ComTurn

Spec == Init /\ [][Next]_vars

-----------------------------------------------------------------------------
(* The planner on every pair of squares.                                   *)

\* the planner runs on its own: the manager does not import motion.py
ManagerIdle ==
    /\ board = StartBoard
    /\ current_turn = PLAYER
    /\ physical_board = EmptyGrid
    /\ last_read = None
    /\ world = StartWorld
    /\ hand = 0

Squares == {<<Letters[f], Digits[r]>> : f \in 1..8, r \in 1..8}

InitMotion ==
    /\ uci \in {a \o b : a \in Squares, b \in Squares}
    /\ start_abs = <<>>
    /\ steps = <<>>
    /\ merged = <<>>
    /\ twice = <<>>
    /\ pc = "call"
    /\ ManagerIdle
    /\ IoIdle

\* start_abs, steps = generate_motion_steps(uci)
Plan ==
    /\ pc = "call"
    /\ \E r \in {generate_motion_steps(uci)} :
           /\ start_abs' = r[1]
           /\ steps' = r[2]
    /\ pc' = "planned"
    /\ UNCHANGED <<uci, merged, twice, manager_vars, io_vars>>

NextMotion == Plan

SpecMotion == InitMotion /\ [][NextMotion]_vars

-----------------------------------------------------------------------------
(* concat_steps on every list of at most MaxLen vectors that are           *)
(* axis-aligned or zero-length, with components -1, 0, 1.                  *)

MaxLen == 3

MergeVectors ==
    {Pos(FromInt(x), FromInt(y)) : x \in {0}, y \in -1..1}
        \cup {Pos(FromInt(x), FromInt(y)) : x \in -1..1, y \in {0}}

InitMerge ==
    /\ uci = <<>>
    /\ start_abs = <<>>
    /\ steps \in UNION {[1..n -> MergeVectors] : n \in 0..MaxLen}
    /\ merged = <<>>
    /\ twice = <<>>
    /\ pc = "merge_call"
    /\ ManagerIdle
    /\ IoIdle

\* merged = concat_steps(steps); twice = concat_steps(merged)
Merge ==
    /\ pc = "merge_call"
    /\ \E m \in {concat_steps(steps)} :
           /\ merged' = m
           /\ twice' = concat_steps(m)
    /\ pc' = "merged"
    /\ UNCHANGED <<uci, start_abs, steps, manager_vars, io_vars>>

NextMerge == Merge

SpecMerge == InitMerge /\ [][NextMerge]_vars

-----------------------------------------------------------------------------
(* execute_uci_move on every pair of squares, the two squares equal or not *)

InitExec ==
    /\ uci \in {a \o b : a \in Squares, b \in Squares}
    /\ start_abs = <<>>
    /\ steps = <<>>
    /\ merged = <<>>
    /\ twice = <<>>
    /\ pc = "exec_call"
    /\ ManagerIdle
    /\ IoIdle

\* execute_uci_move(uci, port); start_abs and steps are its locals
Execute ==
    /\ pc = "exec_call"
    /\ \E r \in {generate_motion_steps(uci)} :
           /\ start_abs' = r[1]
           /\ steps' = r[2]
           /\ port' = ExecuteRoute(r, port)
    /\ pc' = "executed"
    /\ UNCHANGED <<uci, merged, twice, manager_vars, raw_scan, half_board>>

NextExec == Execute

SpecExec == InitExec /\ [][NextExec]_vars

-----------------------------------------------------------------------------
(* _remap_and_reshape_half on well-formed blocks: every block with at most *)
(* two readers that see a piece, and the block of the pieces set up for a  *)
(* game.                                                                   *)

\* the piece IDs the readers report are 1..MaxPieceId
MaxPieceId == 2

\* the block whose readers i and j report a and b, all others 0
ScanWith(i, a, j, b) ==
    [n \in 1..NUM_READERS_PER_NANO |-> IF n = j THEN b ELSE IF n = i THEN a ELSE 0]

Scans ==
    {ScanWith(i, a, j, b) : i \in 1..NUM_READERS_PER_NANO, j \in 1..NUM_READERS_PER_NANO,
                            a \in 0..MaxPieceId, b \in 0..MaxPieceId}
        \cup {NanoBlock(StartWorld)}

InitDecode ==
    /\ uci = <<>>
    /\ start_abs = <<>>
    /\ steps = <<>>
    /\ merged = <<>>
    /\ twice = <<>>
    /\ pc = "decode_call"
    /\ ManagerIdle
    /\ port = <<>>
    /\ raw_scan \in Scans
    /\ half_board = <<>>

\* half = self._remap_and_reshape_half(raw, NANO1_MAP)
Decode ==
    /\ pc = "decode_call"
    /\ half_board' = remap_and_reshape_half(Some(raw_scan), NANO1_MAP)
    /\ pc' = "decoded"
    /\ UNCHANGED <<motion_vars, manager_vars, port, raw_scan>>

NextDecode == Decode

SpecDecode == InitDecode /\ [][NextDecode]_vars

-----------------------------------------------------------------------------
(* Vocabulary of the properties of the game loop.                          *)

\* the labels a pass of play's loop on PLAYER's turn leaves in pc
PollOutcomes == {"read_failed", "no_move", "invalid_uci", "illegal", "player_push"}

\* the pieces after the human moved the e2 pawn to e4
WorldAfterE2E4 ==
    [StartWorld EXCEPT ![6][4] = 0, ![4][4] = PieceId("P")]

\* what a sweep of those pieces decodes to
SensedAfterE2E4 == assemble_full_board(<<1>>, NanoBlock(WorldAfterE2E4))[1]

MoveE2E4 == from_uci(<<"e", "2", "e", "4">>)

-----------------------------------------------------------------------------
(* C1: from a freshly constructed GameManager (standard position,          *)
(* physical_board as the constructor leaves it), a poll whose assembled    *)
(* sensor board equals the layout after e2e4 recognizes exactly e2e4: the  *)
(* move is returned and applied, and the observed layout becomes the new   *)
(* baseline.                                                               *)
C1_FreshRecognizesE2E4 ==
    [][(/\ physical_board = EmptyGrid
        /\ board = StartBoard
        /\ current_turn = PLAYER
        /\ pc' \in PollOutcomes
        /\ last_read' = Some(SensedAfterE2E4))
       => (/\ uci' = Some(<<"e", "2", "e", "4">>)
           /\ board' = chess_push(StartBoard, MoveE2E4)
           /\ physical_board' = SensedAfterE2E4)]_vars

-----------------------------------------------------------------------------
(* C2: a board is committed to physical_board only after the identical     *)
(* board has been read on two consecutive polls: whenever a poll changes   *)
(* physical_board, the poll before it returned that same board.            *)
C2_CommitAfterTwoPolls ==
    [][physical_board' # physical_board => last_read = Some(physical_board')]_vars

-----------------------------------------------------------------------------
(* C3: a poll that recognizes no move (failed read, no from/to pair,       *)
(* malformed UCI, or a from/to pair that player_move rejects as illegal)   *)
(* retains the prior baseline: physical_board is unchanged.                *)
C3_BaselineRetained ==
    [][pc' \in (PollOutcomes \ {"player_push"}) => physical_board' = physical_board]_vars

-----------------------------------------------------------------------------
(* C4: the symbolic board and the side to move change only in a step that  *)
(* pushes a detected player move that passed is_legal, or in a step that   *)
(* pushes the move the engine returned; every other step (failed read, no  *)
(* detected move, malformed UCI, illegal move, the human's hand) leaves    *)
(* both unchanged.                                                         *)
C4_BoardChangesOnlyOnPush ==
    [][(board' # board \/ current_turn' # current_turn) =>
          \/ /\ pc' = "player_push"
             /\ uci' # None
             /\ from_uci(uci'[1]).ok
             /\ is_legal(board, from_uci(uci'[1]))
             /\ board' = chess_push(board, from_uci(uci'[1]))
             /\ current_turn = PLAYER /\ current_turn' = COM
          \/ /\ pc' = "ai_push"
             /\ \E move \in get_ai_move(board) : board' = chess_push(board, move)
             /\ current_turn = COM /\ current_turn' = PLAYER]_vars

\* after a move of each side, a detected move was rejected as illegal: the
\* sweep became the baseline and the symbolic board stayed
C4_Witness ==
    /\ pc = "illegal"
    /\ board.plies = 2
    /\ last_read = Some(physical_board)
    /\ current_turn = PLAYER

-----------------------------------------------------------------------------
(* C5: after ai_move has issued the machine's move, the turn is not handed *)
(* to PLAYER before the physical board has been read back: in the state    *)
(* ai_move leaves, where no sweep has been read since the move, it is not  *)
(* PLAYER's turn.                                                          *)
C5_TurnHeldUntilReadback ==
    pc = "ai_push" => current_turn # PLAYER

-----------------------------------------------------------------------------
(* Vocabulary of the properties of paths.                                  *)

\* exactly one of dx, dy is non-zero
AxisAligned(v) == FIsZero(v.x) # FIsZero(v.y)

\* both vectors move along x, or both along y
SameAxis(a, b) ==
    \/ ~FIsZero(a.x) /\ ~FIsZero(b.x)
    \/ ~FIsZero(a.y) /\ ~FIsZero(b.y)

Vertical(v) == FIsZero(v.x) /\ ~FIsZero(v.y)
Horizontal(v) == ~FIsZero(v.x) /\ FIsZero(v.y)
Up(v) == Vertical(v) /\ ~v.y.neg
Leftward(v) == Horizontal(v) /\ v.x.neg
Rightward(v) == Horizontal(v) /\ ~v.x.neg

\* the exact (unrounded) sums of the path's components
RECURSIVE SumX(_, _)
SumX(st, i) == IF i > Len(st) THEN FZero ELSE SAdd(st[i].x, SumX(st, i + 1))

RECURSIVE SumY(_, _)
SumY(st, i) == IF i > Len(st) THEN FZero ELSE SAdd(st[i].y, SumY(st, i + 1))

\* the centre of the destination square of the planned move
EndPos == uci_square_to_pos(SubSeq(uci, 3, 4))

\* rounding slack: 16 units of 2^-48 mm, that is 2^-44 mm
Slack == <<16>>

\* |a - b| is within the rounding slack
Near(a, b) == NCmp(SAdd(a, FNeg(b)).mag, Slack) <= 0

Planned == pc = "planned"
PlannedMove(u) == pc = "planned" /\ uci = u

E2E4 == <<"e", "2", "e", "4">>
G1F3 == <<"g", "1", "f", "3">>

-----------------------------------------------------------------------------
(* C6: for every ordered pair of distinct squares, every vector of the     *)
(* path returned by generate_motion_steps is non-zero and axis-aligned     *)
(* (exactly one of dx, dy non-zero), and no two adjacent vectors of the    *)
(* path lie on the same axis.                                              *)
C6_AxisAlignedAlternating ==
    (Planned /\ SubSeq(uci, 1, 2) # SubSeq(uci, 3, 4)) =>
        /\ \A i \in 1..Len(steps) : AxisAligned(steps[i])
        /\ \A i \in 1..(Len(steps) - 1) : ~SameAxis(steps[i], steps[i + 1])

\* a diagonal move across the board was planned and took several vectors
C6_Witness ==
    /\ PlannedMove(<<"a", "1", "h", "8">>)
    /\ Len(steps) >= 3

-----------------------------------------------------------------------------
(* C7 as stated: for every ordered pair of squares the vectors of the path *)
(* sum, on each axis, exactly to the destination centre's coordinate minus *)
(* the source centre's coordinate.                                         *)
C7_ExactSum ==
    Planned =>
        /\ SumX(steps, 1) = SAdd(EndPos.x, FNeg(start_abs.x))
        /\ SumY(steps, 1) = SAdd(EndPos.y, FNeg(start_abs.y))

(* C7 amended: for every ordered pair of squares the vectors of the path   *)
(* sum, on each axis, to the destination centre's coordinate minus the     *)
(* source centre's coordinate up to floating-point rounding: the two       *)
(* differ by at most 2^-44 mm.                                             *)
C7_SumWithinRounding ==
    Planned =>
        /\ Near(SumX(steps, 1), SAdd(EndPos.x, FNeg(start_abs.x)))
        /\ Near(SumY(steps, 1), SAdd(EndPos.y, FNeg(start_abs.y)))

\* a planned path whose sum is off by rounding on the x axis
C7_Witness ==
    /\ PlannedMove(<<"f", "1", "a", "1">>)
    /\ SumX(steps, 1) # SAdd(EndPos.x, FNeg(start_abs.x))
    /\ Near(SumX(steps, 1), SAdd(EndPos.x, FNeg(start_abs.x)))

-----------------------------------------------------------------------------
(* C8 as stated: the path planned for e2 to e4 sums to (0, +3 x pitch)     *)
(* and every one of its vectors has dx = 0.                                *)
C8_ThreePitchOneAxis ==
    PlannedMove(E2E4) =>
        /\ FIsZero(SumX(steps, 1))
        /\ Near(SumY(steps, 1), FMul(FromInt(3), SW))
        /\ \A i \in 1..Len(steps) : FIsZero(steps[i].x)

(* C8 amended: the path planned for e2 to e4 sums to (0, +2 x pitch), up   *)
(* to floating-point rounding on y, and has vectors on both axes: five     *)
(* vectors, up, left, up, right, up, whose two horizontal vectors cancel   *)
(* exactly.                                                                *)
C8_TwoPitchDetour ==
    PlannedMove(E2E4) =>
        /\ FIsZero(SumX(steps, 1))
        /\ Near(SumY(steps, 1), FMul(FromInt(2), SW))
        /\ Len(steps) = 5
        /\ Up(steps[1]) /\ Leftward(steps[2]) /\ Up(steps[3])
        /\ Rightward(steps[4]) /\ Up(steps[5])
        /\ steps[4].x = FNeg(steps[2].x)

\* e2e4 was planned and its path leaves the e file
C8_Witness ==
    /\ PlannedMove(E2E4)
    /\ \E i \in 1..Len(steps) : Horizontal(steps[i])

-----------------------------------------------------------------------------
(* C9 as stated: the path planned for the knight move g1 to f3 consists of *)
(* exactly two merged vectors, one on each axis.                           *)
C9_TwoVectors ==
    PlannedMove(G1F3) =>
        /\ Len(steps) = 2
        /\ \E i \in 1..Len(steps) : Horizontal(steps[i])
        /\ \E i \in 1..Len(steps) : Vertical(steps[i])

(* C9 amended: the path planned for the knight move g1 to f3 consists of   *)
(* exactly five merged vectors alternating between the axes: up, left, up, *)
(* left, up.                                                               *)
C9_FiveVectors ==
    PlannedMove(G1F3) =>
        /\ Len(steps) = 5
        /\ Up(steps[1]) /\ Leftward(steps[2]) /\ Up(steps[3])
        /\ Leftward(steps[4]) /\ Up(steps[5])

\* g1f3 was planned and its path has more than two vectors
C9_Witness ==
    /\ PlannedMove(G1F3)
    /\ Len(steps) > 2

-----------------------------------------------------------------------------
(* C10: the merge step is idempotent: for every finite sequence p of       *)
(* vectors that are each axis-aligned or zero-length,                      *)
(* concat_steps(concat_steps(p)) = concat_steps(p).                        *)
C10_MergeIdempotent == pc = "merged" => twice = merged

-----------------------------------------------------------------------------
(* Vocabulary of the properties of the motion commands.                    *)

Executed == pc = "executed"

SameSquare == SubSeq(uci, 1, 2) = SubSeq(uci, 3, 4)

-----------------------------------------------------------------------------
(* C11: a move whose source and destination squares are identical is       *)
(* rejected before the transport layer: execute_uci_move called with such  *)
(* a move writes no command, neither move-absolute nor move-relative, to   *)
(* the port.                                                               *)
C11_SameSquareWritesNothing ==
    (Executed /\ SameSquare) => port = <<>>

-----------------------------------------------------------------------------
(* Vocabulary of the properties of the decoder.                            *)

\* re-encoding of a half-board: undo the row reversal, flatten row-major,
\* map empty back to 0, apply the inverse of the per-8-block permutation
ReEncode(h) ==
    [n \in 1..NUM_READERS_PER_NANO |->
        LET idx == ((n - 1) \div 8) * 8 + NANO1_MAP[((n - 1) % 8) + 1]
            cell == h[7 - (idx \div 4)][idx % 4]
        IN  IF cell = None THEN 0 ELSE cell[1]]

\* the blocks with at most one reader that sees a piece, and what they decode to
ProbeScans ==
    {ScanWith(i, a, i, a) : i \in 1..NUM_READERS_PER_NANO, a \in 0..MaxPieceId}

DecodedProbe ==
    [s \in ProbeScans |-> remap_and_reshape_half(Some(s), NANO1_MAP)]

-----------------------------------------------------------------------------
(* C12: for every well-formed 32-value raw scan, decoding with             *)
(* _remap_and_reshape_half and then re-encoding reproduces the raw scan;   *)
(* in particular no different raw scan decodes to the same half-board.     *)
C12_DecodeReEncode ==
    pc = "decoded" =>
        /\ half_board # None
        /\ ReEncode(half_board[1]) = raw_scan
        /\ \A other \in ProbeScans : other # raw_scan => DecodedProbe[other] # half_board

\* the block of the pieces set up for a game was decoded: the white king is
\* on e1 (row 7, first column of the half) and the black rook on h8
C12_Witness ==
    /\ pc = "decoded"
    /\ raw_scan = NanoBlock(StartWorld)
    /\ half_board[1][7][0] = Some(PieceId("K"))
    /\ half_board[1][0][3] = Some(PieceId("r"))

-----------------------------------------------------------------------------
(* Vocabulary of the properties of a failed acquisition.                   *)

\* the port's answers to one poll make the acquisition fail: no reply to
\* the ping, or a number of bytes other than 32 for the block
AcquisitionFails(resp, got) == ~ping(resp) \/ got # NUM_READERS_PER_NANO

\* what detect_player_move returns when it leaves everything as it is
NothingDetected(pb) == [uci |-> None, physical_board |-> pb, new_state |-> None]

-----------------------------------------------------------------------------
(* C13: a per-poll acquisition failure (no reply to the ping, a wrong      *)
(* number of bytes from get-block, a raw scan whose length is not 32)      *)
(* produces no board: assemble_full_board returns None, detect_player_move *)
(* returns None, physical_board, the symbolic board and current_turn are   *)
(* unchanged, and the game loop goes on to poll again.                     *)
C13_FailedReadRetries ==
    [][/\ \A resp \in PingReplies, got \in ReadLens :
            AcquisitionFails(resp, got) =>
              /\ assemble_full_board(resp, SubSeq(NanoBlock(world), 1, got)) = None
              /\ detect_player_move(physical_board, resp, SubSeq(NanoBlock(world), 1, got))
                     = NothingDetected(physical_board)
              /\ PlayDetected(board, current_turn, NothingDetected(physical_board))
                     = [board |-> board, current_turn |-> current_turn, out |-> "read_failed"]
       /\ \A got \in ReadLens \ {NUM_READERS_PER_NANO} :
            remap_and_reshape_half(Some(SubSeq(NanoBlock(world), 1, got)), NANO1_MAP) = None
       /\ pc' = "read_failed" =>
              /\ last_read' = None
              /\ uci' = None
              /\ physical_board' = physical_board
              /\ board' = board
              /\ current_turn' = current_turn
              /\ current_turn' = PLAYER
              /\ ~is_game_over(board')]_vars

\* after a move of each side and with the pieces moved again, a poll failed
C13_Witness ==
    /\ pc = "read_failed"
    /\ board.plies = 2
    /\ world # StartWorld
    /\ last_read = None
    /\ physical_board # EmptyGrid

-----------------------------------------------------------------------------
(* Vocabulary of the properties of the route on the board.  The squares    *)
(* are the cells of the grid whose lines lie at k * SW, k = 0..8; cell     *)
(* <<i, j>> is file i + 1, rank j + 1.                                     *)

\* the grid lines, exactly
GridLine == [k \in 0..BOARD_SIZE |-> NMulLimb(SW.mag, k)]

\* the bounds of the open interval of cell index k, exactly
LoExact == [k \in 0..(BOARD_SIZE - 1) |-> GridLine[k]]

HiExact == [k \in 0..(BOARD_SIZE - 1) |-> GridLine[k + 1]]

\* the same bounds moved inwards by the rounding slack
LoSlack == [k \in 0..(BOARD_SIZE - 1) |-> NAdd(GridLine[k], Slack)]

HiSlack == [k \in 0..(BOARD_SIZE - 1) |-> NSub(GridLine[k + 1], Slack)]

\* coordinate v lies strictly inside interval k
StrictlyIn(v, k, lo, hi) == NCmp(v.mag, lo[k]) > 0 /\ NCmp(v.mag, hi[k]) < 0

\* the stretch between coordinates v and w meets the inside of interval k
Meets(v, w, k, lo, hi) ==
    /\ NCmp(v.mag, lo[k]) > 0 \/ NCmp(w.mag, lo[k]) > 0
    /\ NCmp(v.mag, hi[k]) < 0 \/ NCmp(w.mag, hi[k]) < 0

\* the cells whose interior the axis-aligned segment from p to q meets
CellsHit(p, q, lo, hi) ==
    IF p.x = q.x
    THEN {i \in 0..(BOARD_SIZE - 1) : StrictlyIn(p.x, i, lo, hi)}
             \X {j \in 0..(BOARD_SIZE - 1) : Meets(p.y, q.y, j, lo, hi)}
    ELSE {i \in 0..(BOARD_SIZE - 1) : Meets(p.x, q.x, i, lo, hi)}
             \X {j \in 0..(BOARD_SIZE - 1) : StrictlyIn(p.y, j, lo, hi)}

\* the point lies on the board: 0 <= x, y <= 8 * SW
OnBoardArea(p) ==
    /\ ~p.x.neg /\ NCmp(p.x.mag, GridLine[BOARD_SIZE]) <= 0
    /\ ~p.y.neg /\ NCmp(p.y.mag, GridLine[BOARD_SIZE]) <= 0

\* the cells met by the route that goes on from p with the vectors st[i..],
\* q being the end of vector i; the cell <<-1, -1>> stands for a point off
\* the board
RECURSIVE RouteCellsTo(_, _, _, _, _, _)
RouteCellsTo(p, q, st, i, lo, hi) ==
    (IF OnBoardArea(q) THEN CellsHit(p, q, lo, hi) ELSE {<<-1, -1>>})
        \cup (IF i = Len(st) THEN {}
              ELSE RouteCellsTo(q, Pos(SAdd(q.x, st[i + 1].x), SAdd(q.y, st[i + 1].y)),
                                st, i + 1, lo, hi))

\* the cells met by the route of the planned move (the positions are the
\* exact sums of the vectors)
RouteCells(lo, hi) ==
    IF steps = <<>> THEN {}
    ELSE RouteCellsTo(start_abs, Pos(SAdd(start_abs.x, steps[1].x), SAdd(start_abs.y, steps[1].y)),
                      steps, 1, lo, hi)

CellOf(sq) == <<LetterIndex(sq[1]), DigitValue(sq[2]) - 1>>

\* the cells of the source and destination squares of the planned move
EndCells == {CellOf(SubSeq(uci, 1, 2)), CellOf(SubSeq(uci, 3, 4))}

-----------------------------------------------------------------------------
(* C14 as stated: for every ordered pair of distinct squares the route     *)
(* never passes through the interior of a square other than the source and *)
(* the destination, and stays within the board area.                       *)
C14_NoOtherInterior ==
    (Planned /\ SubSeq(uci, 1, 2) # SubSeq(uci, 3, 4)) =>
        RouteCells(LoExact, HiExact) \subseteq EndCells

(* C14 amended: for every ordered pair of distinct squares the route stays *)
(* within the board area and never goes deeper than the floating-point     *)
(* rounding slack, 2^-44 mm, into the interior of a square other than the  *)
(* source and the destination.                                             *)
C14_NoOtherInteriorWithinRounding ==
    (Planned /\ SubSeq(uci, 1, 2) # SubSeq(uci, 3, 4)) =>
        RouteCells(LoSlack, HiSlack) \subseteq EndCells

\* a1 to b2 was planned; its route grazes b1 by less than the slack and
\* otherwise meets a1 and b2 only
C14_Witness ==
    /\ PlannedMove(<<"a", "1", "b", "2">>)
    /\ <<1, 0>> \in RouteCells(LoExact, HiExact)
    /\ RouteCells(LoSlack, HiSlack) = {<<0, 0>>, <<1, 1>>}

-----------------------------------------------------------------------------
(* Vocabulary of the properties of the packets on the port.                *)

DigitOf(ch) == (CHOOSE k \in 1..Len(DecimalDigits) : DecimalDigits[k] = ch) - 1

\* the integers written in a packet's text, read back from its characters:
\* out holds the fields read so far, sign and acc the field being read
RECURSIVE ParseFields(_, _, _, _, _)
ParseFields(text, i, sign, acc, out) ==
    IF i > Len(text) THEN out
    ELSE IF text[i] = "-" THEN ParseFields(text, i + 1, -1, acc, out)
    ELSE IF text[i] \in {" ", "\n"} THEN ParseFields(text, i + 1, 1, 0, Append(out, sign * acc))
    ELSE ParseFields(text, i + 1, sign, 10 * acc + DigitOf(text[i]), out)

PacketFields(pk) == ParseFields(pk.text, 1, 1, 0, <<>>)

\* the sum of field f over the move-relative packets prt[i..]
RECURSIVE SentRelSum(_, _, _)
SentRelSum(prt, i, f) ==
    IF i > Len(prt) THEN 0
    ELSE (IF prt[i].opcode = MOTION_MOVE_REL THEN PacketFields(prt[i])[f] ELSE 0)
             + SentRelSum(prt, i + 1, f)

\* the exact net displacement between the two square centres
NetX == SAdd(EndPos.x, FNeg(start_abs.x))

NetY == SAdd(EndPos.y, FNeg(start_abs.y))

-----------------------------------------------------------------------------
(* C15: for every move between distinct squares, the integer-rounded       *)
(* relative displacements that execute_uci_move sends sum, on each axis,   *)
(* to the nearest-integer rounding of the exact net displacement between   *)
(* the two square centres: per-vector rounding does not accumulate.        *)
C15_RoundedStepsSumToRoundedNet ==
    (Executed /\ ~SameSquare) =>
        /\ SentRelSum(port, 1, 1) = RoundInt(NetX)
        /\ SentRelSum(port, 1, 2) = RoundInt(NetY)

====
